---- MODULE Spec2Model ----
(***************************************************************************)
(* A model of the freecurrencyapi Go client: the client configuration      *)
(* built by NewClient, the request encoders (toParams), the shared         *)
(* doRequest routine, the four endpoint operations (Latest, Currencies,    *)
(* Historical, Status) and the wire-to-public response mappings.           *)
(*                                                                         *)
(* Each call of an operation is a process.  It runs from its entry up to   *)
(* httpClient.Do, where it blocks on the transport; the transport either   *)
(* fails or hands back a response; the operation then resumes, classifies  *)
(* the status, decodes the body, closes it and returns.  The caller may    *)
(* cancel the call's context while the call is in progress.                *)
(***************************************************************************)
EXTENDS Integers, Sequences, FiniteSets, TLC

\* Number of calls made on the client in Spec.
NumCalls == 1

\* Number of calls made on the client in SpecConcurrent, where the claim is
\* about calls that overlap.
NumConcurrent == 2

Calls == 1..NumCalls

Concurrent == 1..NumConcurrent

\* the calls the state has room for
Slots == Calls \cup Concurrent

----------------------------------------------------------------------------
(* Values *)

\* A Go map: nil, or a finite function from keys to values.
EmptyFn == [k \in {} |-> 0]

NilMap == [nil |-> TRUE, kv |-> EmptyFn]

MkMap(f) == [nil |-> FALSE, kv |-> f]

\* error values
Nil == "nil"

ErrInvalidStatusCode == "invalid status code"

ErrUnauthorized == "unauthorized"

\* errors of the collaborators (net/http, net/url, encoding/json, context)
ErrNilContext == "net/http: nil Context"

ErrMissingScheme == "missing protocol scheme"

ErrConnRefused == "connect: connection refused"

ErrCtxCanceled == "context canceled"

ErrUnexpectedEOF == "unexpected EOF"

ErrSyntax == "invalid character"

StatusOK == 200

StatusUnauthorized == 401

MethodGet == "GET"

----------------------------------------------------------------------------
(* URLs.  A URL text is kept as its scheme ("" when it has none), the    *)
(* text between the scheme and the first '?' (loc), and the query behind   *)
(* the '?', a sequence of <<key, value>> pairs (empty when the text has no *)
(* '?').                                                                   *)

BaseUrl == [scheme |-> "https", loc |-> "//api.freecurrencyapi.com/v1/", query |-> <<>>]

TestUrl == [scheme |-> "http", loc |-> "//127.0.0.1/v1/", query |-> <<>>]

QueryUrl == [scheme |-> "http", loc |-> "//127.0.0.1/v1/", query |-> << <<"tenant", "t1">> >>]

BadUrl == [scheme |-> "", loc |-> ":bad/", query |-> <<>>]

\* the empty string
EmptyUrl == [scheme |-> "", loc |-> "", query |-> <<>>]

\* baseURL + path: the path lands at the end of the text, which is inside
\* the last query value when the text already holds a '?'.
Concat(u, path) ==
    IF u.query = <<>>
    THEN [u EXCEPT !.loc = @ \o path]
    ELSE [u EXCEPT !.query[Len(u.query)][2] = @ \o path]

\* url.Parse refuses a text that starts with a colon ("missing protocol
\* scheme").
ParseOK(u) == u.scheme # ""

RECURSIVE AddAll(_, _)
\* url.Values after adding every pair of a sequence, in order (Values.Add).
AddAll(q, pairs) ==
    IF pairs = <<>> THEN q
    ELSE LET k == pairs[1][1]
             v == pairs[1][2]
             q1 == IF k \in DOMAIN q
                   THEN [q EXCEPT ![k] = Append(@, v)]
                   ELSE [x \in DOMAIN q \cup {k} |-> IF x = k THEN <<v>> ELSE q[x]]
         IN AddAll(q1, Tail(pairs))

\* req.URL.Query(): the url.Values parsed from the URL's own query.
URLQuery(u) == AddAll(EmptyFn, u.query)

----------------------------------------------------------------------------
(* Request encoders *)

RECURSIVE Join(_, _)
\* strings.Join
Join(list, sep) ==
    IF list = <<>> THEN ""
    ELSE IF Len(list) = 1 THEN list[1]
    ELSE list[1] \o sep \o Join(Tail(list), sep)

Digit == <<"0", "1", "2", "3", "4", "5", "6", "7", "8", "9">>

Pad2(n) == Digit[((n \div 10) % 10) + 1] \o Digit[(n % 10) + 1]

RECURSIVE Decimal(_)
\* the decimal digits of a natural number
Decimal(n) == IF n < 10 THEN Digit[n + 1] ELSE Decimal(n \div 10) \o Digit[(n % 10) + 1]

\* appendInt(b, year, 4): at least four digits, zero-padded; a longer year is
\* written in full
Pad4(n) == IF n < 10000 THEN Pad2(n \div 100) \o Pad2(n % 100) ELSE Decimal(n)

\* time.Time.Format("2006-01-02") of a date [year, month, day]
FormatDate(t) == Pad4(t.year) \o "-" \o Pad2(t.month) \o "-" \o Pad2(t.day)

\* time.Time{}: January 1, year 1
ZeroTime == [year |-> 1, month |-> 1, day |-> 1]

\* p[k] = v on a Go map
Put(p, k, v) == [x \in DOMAIN p \cup {k} |-> IF x = k THEN v ELSE p[x]]

\* A faulty variant of LatestRequest_toParams: the list is only encoded
\* when a base currency is set.
LatestRequest_toParams_nested(r) ==
    LET p0 == EmptyFn
        p1 == IF r.BaseCurrency # "" THEN Put(p0, "base_currency", r.BaseCurrency) ELSE p0
        p2 == IF r.BaseCurrency # "" /\ Len(r.Currencies) > 0
              THEN Put(p1, "currencies", Join(r.Currencies, ","))
              ELSE p1
    IN p2

LatestRequest_toParams(r) ==
    LET p0 == EmptyFn
        p1 == IF r.BaseCurrency # "" THEN Put(p0, "base_currency", r.BaseCurrency) ELSE p0
        p2 == IF Len(r.Currencies) > 0
              THEN Put(p1, "currencies", Join(r.Currencies, ","))
              ELSE p1
    IN p2

CurrenciesRequest_toParams(r) ==
    LET p0 == EmptyFn
        p1 == IF Len(r.Currencies) > 0
              THEN Put(p0, "currencies", Join(r.Currencies, ","))
              ELSE p0
    IN p1

\* A faulty variant of HistoricalRequest_toParams: an unset date is left out.
HistoricalRequest_toParams_omitZero(r) ==
    LET p0 == IF r.Date = [year |-> 1, month |-> 1, day |-> 1]
              THEN EmptyFn
              ELSE Put(EmptyFn, "date", FormatDate(r.Date))
        p1 == IF r.BaseCurrency # "" THEN Put(p0, "base_currency", r.BaseCurrency) ELSE p0
        p2 == IF Len(r.Currencies) > 0
              THEN Put(p1, "currencies", Join(r.Currencies, ","))
              ELSE p1
    IN p2

HistoricalRequest_toParams(r) ==
    LET p0 == Put(EmptyFn, "date", FormatDate(r.Date))
        p1 == IF r.BaseCurrency # "" THEN Put(p0, "base_currency", r.BaseCurrency) ELSE p0
        p2 == IF Len(r.Currencies) > 0
              THEN Put(p1, "currencies", Join(r.Currencies, ","))
              ELSE p1
    IN p2

----------------------------------------------------------------------------
(* Response bodies and their decoding.  A body is a JSON document (an      *)
(* object, as a function from its keys) that is complete, or cut off       *)
(* before its end, or broken by a character JSON does not allow.           *)

\* Field k of a JSON object, or the Go zero value when the key is absent.
Field(obj, k, zero) == IF k \in DOMAIN obj THEN obj[k] ELSE zero

\* A JSON object decoded into a Go map: absent leaves the map nil.
MapField(obj, k) == IF k \in DOMAIN obj THEN MkMap(obj[k]) ELSE NilMap

\* json.Decoder.Decode over the stream the body delivers.  A read error of
\* the stream is returned as it is; a document that ends early is
\* io.ErrUnexpectedEOF, a broken one a *json.SyntaxError; in all three cases
\* the target is left untouched.
DecodeErr(stream) ==
    IF stream.err # Nil THEN stream.err
    ELSE IF stream.body.fault = "truncated" THEN ErrUnexpectedEOF
    ELSE IF stream.body.fault = "syntax" THEN ErrSyntax
    ELSE Nil

latestResponse_zero == [Data |-> NilMap]

Decode_latestResponse(stream) ==
    IF DecodeErr(stream) # Nil
    THEN [err |-> DecodeErr(stream), val |-> latestResponse_zero]
    ELSE [err |-> Nil, val |-> [Data |-> MapField(stream.body.json, "data")]]

currencyResponseItem(obj) ==
    [Symbol        |-> Field(obj, "symbol", ""),
     Name          |-> Field(obj, "name", ""),
     SymbolNative  |-> Field(obj, "symbol_native", ""),
     DecimalDigits |-> Field(obj, "decimal_digits", 0),
     Rounding      |-> Field(obj, "rounding", 0),
     Code          |-> Field(obj, "code", ""),
     NamePlural    |-> Field(obj, "name_plural", "")]

currenciesResponse_zero == [Data |-> NilMap]

Decode_currenciesResponse(stream) ==
    IF DecodeErr(stream) # Nil
    THEN [err |-> DecodeErr(stream), val |-> currenciesResponse_zero]
    ELSE LET d == MapField(stream.body.json, "data")
         IN [err |-> Nil,
             val |-> [Data |-> IF d.nil THEN NilMap
                               ELSE MkMap([k \in DOMAIN d.kv |-> currencyResponseItem(d.kv[k])])]]

historicalResponse_zero == [Data |-> NilMap]

Decode_historicalResponse(stream) ==
    IF DecodeErr(stream) # Nil
    THEN [err |-> DecodeErr(stream), val |-> historicalResponse_zero]
    ELSE LET d == MapField(stream.body.json, "data")
         IN [err |-> Nil,
             val |-> [Data |-> IF d.nil THEN NilMap
                               ELSE MkMap([k \in DOMAIN d.kv |-> MkMap(d.kv[k])])]]

statusResponse_zero == [Quotas |-> [Month |-> [Total |-> 0, Used |-> 0, Remaining |-> 0]]]

Decode_statusResponse(stream) ==
    IF DecodeErr(stream) # Nil
    THEN [err |-> DecodeErr(stream), val |-> statusResponse_zero]
    ELSE LET q == Field(stream.body.json, "quotas", EmptyFn)
             m == Field(q, "month", EmptyFn)
         IN [err |-> Nil,
             val |-> [Quotas |-> [Month |-> [Total     |-> Field(m, "total", 0),
                                             Used      |-> Field(m, "used", 0),
                                             Remaining |-> Field(m, "remaining", 0)]]]]

----------------------------------------------------------------------------
(* Wire-to-public response mappings *)

LatestResponse_zero == [Rates |-> NilMap]

toLatestResponse(r) == [Rates |-> r.Data]

CurrenciesResponse_zero == [Currencies |-> NilMap]

\* A faulty variant of CurrencyItem: the plural name is taken from Name.
CurrencyItem_wrongField(value) ==
    [Symbol        |-> value.Symbol,
     Name          |-> value.Name,
     SymbolNative  |-> value.SymbolNative,
     DecimalDigits |-> value.DecimalDigits,
     Rounding      |-> value.Rounding,
     Code          |-> value.Code,
     NamePlural    |-> value.Name]

CurrencyItem(value) ==
    [Symbol        |-> value.Symbol,
     Name          |-> value.Name,
     SymbolNative  |-> value.SymbolNative,
     DecimalDigits |-> value.DecimalDigits,
     Rounding      |-> value.Rounding,
     Code          |-> value.Code,
     NamePlural    |-> value.NamePlural]

\* make(map, len(r.Data)) is never nil, also when r.Data is
toCurrenciesResponse(r) ==
    [Currencies |-> MkMap([key \in DOMAIN r.Data.kv |-> CurrencyItem(r.Data.kv[key])])]

HistoricalResponse_zero == [Rates |-> NilMap]

\* The keys the range loop over r.Data may deliver first; firstKey stays ""
\* when the map has none.
FirstKeys(r) == IF DOMAIN r.Data.kv = {} THEN {""} ELSE DOMAIN r.Data.kv

\* A faulty variant of toHistoricalResponse: the rates of the other dates
\* are added to those of the first key.
toHistoricalResponse_merged(r, firstKey) ==
    LET data == r.Data.kv
        keys == UNION {DOMAIN data[d].kv : d \in DOMAIN data}
    IN [Rates |->
           IF firstKey \in DOMAIN data
           THEN MkMap([k \in keys |->
                          IF k \in DOMAIN data[firstKey].kv
                          THEN data[firstKey].kv[k]
                          ELSE data[CHOOSE d \in DOMAIN data : k \in DOMAIN data[d].kv].kv[k]])
           ELSE NilMap]

\* r.Data[firstKey]: the zero value (a nil map) when the key is absent
toHistoricalResponse(r, firstKey) ==
    [Rates |-> IF firstKey \in DOMAIN r.Data.kv THEN r.Data.kv[firstKey] ELSE NilMap]

StatusResponse_zero == [Month |-> [Total |-> 0, Used |-> 0, Remaining |-> 0]]

\* A faulty variant of toStatusResponse: Remaining is computed from the two
\* other numbers.
toStatusResponse_computed(r) ==
    [Month |-> [Total     |-> r.Quotas.Month.Total,
                Used      |-> r.Quotas.Month.Used,
                Remaining |-> r.Quotas.Month.Total - r.Quotas.Month.Used]]

toStatusResponse(r) ==
    [Month |-> [Total     |-> r.Quotas.Month.Total,
                Used      |-> r.Quotas.Month.Used,
                Remaining |-> r.Quotas.Month.Remaining]]

----------------------------------------------------------------------------
(* Client construction *)

DefaultClient == "http.DefaultClient"

CustomClient == "custom http.Client"

NilClient == "nil"

\* a nil *ClientOption
NilOption == [isNil |-> TRUE, HTTPClient |-> NilClient, BaseURL |-> EmptyUrl]

\* Options(): &ClientOption{}
Options == [isNil |-> FALSE, HTTPClient |-> NilClient, BaseURL |-> EmptyUrl]

WithHTTPClient(c, httpClient) == [c EXCEPT !.HTTPClient = httpClient]

WithBaseURL(c, baseURL) == [c EXCEPT !.BaseURL = baseURL]

\* A faulty variant of NewClient: the option's base URL is only taken when
\* the option also carries an HTTP client.
NewClient_coupled(apiKey, opts) ==
    LET opt == IF Len(opts) > 0 /\ ~opts[1].isNil THEN opts[1] ELSE Options
        httpClient == IF opt.HTTPClient = NilClient THEN DefaultClient ELSE opt.HTTPClient
        baseURL == IF opt.HTTPClient = NilClient \/ opt.BaseURL = EmptyUrl
                   THEN BaseUrl
                   ELSE opt.BaseURL
    IN [apiKey |-> apiKey, httpClient |-> httpClient, baseURL |-> baseURL]

NewClient(apiKey, opts) ==
    LET opt == IF Len(opts) > 0 /\ ~opts[1].isNil THEN opts[1] ELSE Options
        httpClient == IF opt.HTTPClient = NilClient THEN DefaultClient ELSE opt.HTTPClient
        baseURL == IF opt.BaseURL = EmptyUrl THEN BaseUrl ELSE opt.BaseURL
    IN [apiKey |-> apiKey, httpClient |-> httpClient, baseURL |-> baseURL]

----------------------------------------------------------------------------
(* The shared request routine, up to the transport call *)

\* A context argument: nil, or a reference to the caller's context (whose
\* state, live or canceled, is the variable ctx)
NilCtx == "nil"

CallerCtx == "ctx"

NoBody == "nil"

NoRequest == EmptyFn

\* textproto.CanonicalMIMEHeaderKey, as Header.Set applies it
CanonicalHeaderKey(k) == IF k = "apikey" THEN "Apikey" ELSE k

HeaderSet(h, k, v) == Put(h, CanonicalHeaderKey(k), v)

\* http.NewRequestWithContext: the method is valid; a nil context is
\* refused before the URL is parsed.
NewRequestWithContext(cx, method, url, body) ==
    IF cx = NilCtx THEN [req |-> NoRequest, err |-> ErrNilContext]
    ELSE IF ~ParseOK(url) THEN [req |-> NoRequest, err |-> ErrMissingScheme]
    ELSE [req |-> [Method |-> method, URL |-> url, Header |-> EmptyFn, Body |-> body,
                   Ctx |-> cx],
          err |-> Nil]

\* q.Add(k, v) for every entry of the parameter map (its keys are distinct,
\* so the order of the range loop does not show)
AddParams(q, query) ==
    [k \in DOMAIN q \cup DOMAIN query |->
        (IF k \in DOMAIN q THEN q[k] ELSE <<>>)
        \o (IF k \in DOMAIN query THEN <<query[k]>> ELSE <<>>)]

BackgroundCtx == "context.Background()"

\* A faulty variant of doRequest: the request is built with http.NewRequest,
\* which gives it the background context instead of the caller's.
doRequest_background(v, cx, method, path, body, query) ==
    LET url == Concat(v.baseURL, path)
        r == NewRequestWithContext(BackgroundCtx, method, url, body)
    IN IF r.err # Nil THEN r
       ELSE LET h1 == HeaderSet(r.req.Header, "apikey", v.apiKey)
                h2 == HeaderSet(h1, "Content-Type", "application/json")
                q == AddParams(URLQuery(r.req.URL), query)
            IN [req |-> [Method |-> r.req.Method,
                         URL |-> [scheme |-> r.req.URL.scheme, loc |-> r.req.URL.loc,
                                  RawQuery |-> q],
                         Header |-> h2,
                         Body |-> r.req.Body,
                         Ctx |-> r.req.Ctx],
                err |-> Nil]

\* A faulty variant of doRequest: the encoded query is not stored back into
\* the URL.
doRequest_keepRawQuery(v, cx, method, path, body, query) ==
    LET url == Concat(v.baseURL, path)
        r == NewRequestWithContext(cx, method, url, body)
    IN IF r.err # Nil THEN r
       ELSE LET h1 == HeaderSet(r.req.Header, "apikey", v.apiKey)
                h2 == HeaderSet(h1, "Content-Type", "application/json")
            IN [req |-> [Method |-> r.req.Method,
                         URL |-> [scheme |-> r.req.URL.scheme, loc |-> r.req.URL.loc,
                                  RawQuery |-> URLQuery(r.req.URL)],
                         Header |-> h2,
                         Body |-> r.req.Body,
                         Ctx |-> r.req.Ctx],
                err |-> Nil]

\* doRequest up to the call of v.httpClient.Do: the request handed to the
\* transport, or the construction error.  RawQuery is kept as the url.Values
\* it encodes.
doRequest(v, cx, method, path, body, query) ==
    LET url == Concat(v.baseURL, path)
        r == NewRequestWithContext(cx, method, url, body)
    IN IF r.err # Nil THEN r
       ELSE LET h1 == HeaderSet(r.req.Header, "apikey", v.apiKey)
                h2 == HeaderSet(h1, "Content-Type", "application/json")
                q == AddParams(URLQuery(r.req.URL), query)
            IN [req |-> [Method |-> r.req.Method,
                         URL |-> [scheme |-> r.req.URL.scheme, loc |-> r.req.URL.loc,
                                  RawQuery |-> q],
                         Header |-> h2,
                         Body |-> r.req.Body,
                         Ctx |-> r.req.Ctx],
                err |-> Nil]

----------------------------------------------------------------------------
(* Inputs *)

ApiKeys == {"", "sample-api-key"}

\* the (apiKey, opts...) argument lists NewClient is called with
ClientArgs ==
    { <<"", <<>> >>,
      <<"sample-api-key", << WithBaseURL(WithHTTPClient(Options, CustomClient), TestUrl) >> >>,
      <<"sample-api-key", << WithBaseURL(Options, QueryUrl) >> >>,
      <<"sample-api-key", << WithBaseURL(Options, BadUrl) >> >> }

\* what the caller passes as ctx: nil, a live context, or one that is
\* already canceled
Contexts == {NilCtx, "live", "canceled"}

\* the context argument as the operation sees it
Handle(cx) == IF cx = NilCtx THEN NilCtx ELSE CallerCtx

LatestRequests ==
    { [BaseCurrency |-> "", Currencies |-> <<>>],
      [BaseCurrency |-> "USD", Currencies |-> <<"EUR", "GBP">>] }

CurrenciesRequests ==
    { [Currencies |-> <<>>], [Currencies |-> <<"EUR", "GBP">>] }

HistoricalRequests ==
    { [Date |-> ZeroTime, BaseCurrency |-> "", Currencies |-> <<>>],
      [Date |-> [year |-> 2022, month |-> 1, day |-> 1], BaseCurrency |-> "USD",
       Currencies |-> <<"EUR">>] }

\* the status codes the server answers with
StatusCodes == {200, 204, 401, 500}

Complete(doc) == [json |-> doc, fault |-> ""]

Truncated(doc) == [json |-> doc, fault |-> "truncated"]

Malformed(doc) == [json |-> doc, fault |-> "syntax"]

\* an error payload, as sent with a 401
ErrorDoc == [message |-> "Unauthenticated"]

LatestDoc == [data |-> [AED |-> 3, AFN |-> 91]]

LatestBodies == {Complete(LatestDoc), Truncated(LatestDoc), Complete(ErrorDoc)}

EurDoc ==
    [symbol |-> "E", name |-> "Euro", symbol_native |-> "e", decimal_digits |-> 2,
     rounding |-> 0, code |-> "EUR", name_plural |-> "Euros"]

ChfDoc ==
    [symbol |-> "CHF", name |-> "Swiss Franc", symbol_native |-> "Fr", decimal_digits |-> 2,
     rounding |-> 5, code |-> "CHF", name_plural |-> "Swiss francs"]

CurrenciesDoc == [data |-> [EUR |-> EurDoc, CHF |-> ChfDoc]]

CurrenciesBodies == {Complete(CurrenciesDoc), Malformed(CurrenciesDoc), Complete(ErrorDoc)}

OneDateDoc == [data |-> ("2022-01-01" :> [AED |-> 3, AFN |-> 91])]

TwoDatesDoc == [data |-> ("2022-01-01" :> [AED |-> 3, AFN |-> 91]) @@ ("2022-01-02" :> [AED |-> 4])]

NoDateDoc == [data |-> EmptyFn]

HistoricalBodies ==
    {Complete(OneDateDoc), Complete(TwoDatesDoc), Complete(NoDateDoc), Truncated(OneDateDoc)}

StatusDoc == [quotas |-> [month |-> [total |-> 300, used |-> 71, remaining |-> 229]]]

StatusBodies == {Complete(StatusDoc), Truncated(StatusDoc), Malformed(ErrorDoc)}

----------------------------------------------------------------------------
(* The four operations after doRequest has returned.  d is what doRequest  *)
(* returned, [res, err]; stream is what reading res.Body delivers.  Each   *)
(* yields the returned pair, the number of times the body was closed (the   *)
(* deferred res.Body.Close() runs once, at the return) and whether the     *)
(* body was read.                                                          *)

NoResponse == EmptyFn

Returned(result, err, closes, read) ==
    [result |-> result, err |-> err, closes |-> closes, read |-> read]

\* A faulty variant of LatestTail: every 2xx status is taken as success.
LatestTail_any2xx(d, stream) ==
    IF d.err # Nil THEN Returned(LatestResponse_zero, d.err, 0, FALSE)
    ELSE IF d.res.StatusCode < 200 \/ d.res.StatusCode >= 300
    THEN IF d.res.StatusCode = StatusUnauthorized
         THEN Returned(LatestResponse_zero, ErrUnauthorized, 1, FALSE)
         ELSE Returned(LatestResponse_zero, ErrInvalidStatusCode, 1, FALSE)
    ELSE LET dec == Decode_latestResponse(stream)
         IN IF dec.err # Nil
            THEN Returned(LatestResponse_zero, dec.err, 1, TRUE)
            ELSE Returned(toLatestResponse(dec.val), Nil, 1, TRUE)

LatestTail(d, stream) ==
    IF d.err # Nil THEN Returned(LatestResponse_zero, d.err, 0, FALSE)
    ELSE IF d.res.StatusCode # StatusOK
    THEN IF d.res.StatusCode = StatusUnauthorized
         THEN Returned(LatestResponse_zero, ErrUnauthorized, 1, FALSE)
         ELSE Returned(LatestResponse_zero, ErrInvalidStatusCode, 1, FALSE)
    ELSE LET dec == Decode_latestResponse(stream)
         IN IF dec.err # Nil
            THEN Returned(LatestResponse_zero, dec.err, 1, TRUE)
            ELSE Returned(toLatestResponse(dec.val), Nil, 1, TRUE)

\* A faulty variant of CurrenciesTail: an error of doRequest is reported as
\* ErrInvalidStatusCode.
CurrenciesTail_reclassify(d, stream) ==
    IF d.err # Nil THEN Returned(CurrenciesResponse_zero, ErrInvalidStatusCode, 0, FALSE)
    ELSE IF d.res.StatusCode # StatusOK
    THEN IF d.res.StatusCode = StatusUnauthorized
         THEN Returned(CurrenciesResponse_zero, ErrUnauthorized, 1, FALSE)
         ELSE Returned(CurrenciesResponse_zero, ErrInvalidStatusCode, 1, FALSE)
    ELSE LET dec == Decode_currenciesResponse(stream)
         IN IF dec.err # Nil
            THEN Returned(CurrenciesResponse_zero, dec.err, 1, TRUE)
            ELSE Returned(toCurrenciesResponse(dec.val), Nil, 1, TRUE)

\* A faulty variant of CurrenciesTail: the close is deferred only after the
\* status check, so the early returns leave the body open.
CurrenciesTail_lateDefer(d, stream) ==
    IF d.err # Nil THEN Returned(CurrenciesResponse_zero, d.err, 0, FALSE)
    ELSE IF d.res.StatusCode # StatusOK
    THEN IF d.res.StatusCode = StatusUnauthorized
         THEN Returned(CurrenciesResponse_zero, ErrUnauthorized, 0, FALSE)
         ELSE Returned(CurrenciesResponse_zero, ErrInvalidStatusCode, 0, FALSE)
    ELSE LET dec == Decode_currenciesResponse(stream)
         IN IF dec.err # Nil
            THEN Returned(CurrenciesResponse_zero, dec.err, 1, TRUE)
            ELSE Returned(toCurrenciesResponse(dec.val), Nil, 1, TRUE)

CurrenciesTail(d, stream) ==
    IF d.err # Nil THEN Returned(CurrenciesResponse_zero, d.err, 0, FALSE)
    ELSE IF d.res.StatusCode # StatusOK
    THEN IF d.res.StatusCode = StatusUnauthorized
         THEN Returned(CurrenciesResponse_zero, ErrUnauthorized, 1, FALSE)
         ELSE Returned(CurrenciesResponse_zero, ErrInvalidStatusCode, 1, FALSE)
    ELSE LET dec == Decode_currenciesResponse(stream)
         IN IF dec.err # Nil
            THEN Returned(CurrenciesResponse_zero, dec.err, 1, TRUE)
            ELSE Returned(toCurrenciesResponse(dec.val), Nil, 1, TRUE)

\* A faulty variant of HistoricalTail: the error of the decoder is dropped.
HistoricalTail_ignoreDecodeErr(d, stream) ==
    IF d.err # Nil THEN {Returned(HistoricalResponse_zero, d.err, 0, FALSE)}
    ELSE IF d.res.StatusCode # StatusOK
    THEN IF d.res.StatusCode = StatusUnauthorized
         THEN {Returned(HistoricalResponse_zero, ErrUnauthorized, 1, FALSE)}
         ELSE {Returned(HistoricalResponse_zero, ErrInvalidStatusCode, 1, FALSE)}
    ELSE LET dec == Decode_historicalResponse(stream)
         IN {Returned(toHistoricalResponse(dec.val, firstKey), Nil, 1, TRUE) :
                firstKey \in FirstKeys(dec.val)}

\* The results Historical may return: one for each key the range loop of
\* toHistoricalResponse may deliver first.
HistoricalTail(d, stream) ==
    IF d.err # Nil THEN {Returned(HistoricalResponse_zero, d.err, 0, FALSE)}
    ELSE IF d.res.StatusCode # StatusOK
    THEN IF d.res.StatusCode = StatusUnauthorized
         THEN {Returned(HistoricalResponse_zero, ErrUnauthorized, 1, FALSE)}
         ELSE {Returned(HistoricalResponse_zero, ErrInvalidStatusCode, 1, FALSE)}
    ELSE LET dec == Decode_historicalResponse(stream)
         IN IF dec.err # Nil
            THEN {Returned(HistoricalResponse_zero, dec.err, 1, TRUE)}
            ELSE {Returned(toHistoricalResponse(dec.val, firstKey), Nil, 1, TRUE) :
                     firstKey \in FirstKeys(dec.val)}

\* A faulty variant of StatusTail: 401 is not told apart from the other
\* statuses.
StatusTail_no401(d, stream) ==
    IF d.err # Nil THEN Returned(StatusResponse_zero, d.err, 0, FALSE)
    ELSE IF d.res.StatusCode # StatusOK
    THEN Returned(StatusResponse_zero, ErrInvalidStatusCode, 1, FALSE)
    ELSE LET dec == Decode_statusResponse(stream)
         IN IF dec.err # Nil
            THEN Returned(StatusResponse_zero, dec.err, 1, TRUE)
            ELSE Returned(toStatusResponse(dec.val), Nil, 1, TRUE)

\* A faulty variant of StatusTail: the body close is deferred before the
\* error of doRequest is looked at.
StatusTail_deferFirst(d, stream) ==
    IF d.err # Nil THEN Returned(StatusResponse_zero, d.err, 1, FALSE)
    ELSE IF d.res.StatusCode # StatusOK
    THEN IF d.res.StatusCode = StatusUnauthorized
         THEN Returned(StatusResponse_zero, ErrUnauthorized, 1, FALSE)
         ELSE Returned(StatusResponse_zero, ErrInvalidStatusCode, 1, FALSE)
    ELSE LET dec == Decode_statusResponse(stream)
         IN IF dec.err # Nil
            THEN Returned(StatusResponse_zero, dec.err, 1, TRUE)
            ELSE Returned(toStatusResponse(dec.val), Nil, 1, TRUE)

StatusTail(d, stream) ==
    IF d.err # Nil THEN Returned(StatusResponse_zero, d.err, 0, FALSE)
    ELSE IF d.res.StatusCode # StatusOK
    THEN IF d.res.StatusCode = StatusUnauthorized
         THEN Returned(StatusResponse_zero, ErrUnauthorized, 1, FALSE)
         ELSE Returned(StatusResponse_zero, ErrInvalidStatusCode, 1, FALSE)
    ELSE LET dec == Decode_statusResponse(stream)
         IN IF dec.err # Nil
            THEN Returned(StatusResponse_zero, dec.err, 1, TRUE)
            ELSE Returned(toStatusResponse(dec.val), Nil, 1, TRUE)

----------------------------------------------------------------------------
(* State *)

VARIABLES
    client,      \* the v2Client built by NewClient
    pc,          \* per call: "idle", "Do" (blocked in httpClient.Do),
                 \*           "resume" (doRequest has returned), "done"
    op,          \* per call: the operation called
    input,       \* per call: the request value passed in
    ctx,         \* per call: the context passed in: "nil", "live", "canceled"
    canceledAt,  \* per call: where the call stood when its context was canceled
    sent,        \* per call: the requests handed to the transport, in order
    dres,        \* per call: what doRequest returned, [res, err]
    stream,      \* per call: what reading the response body delivered
    closes,      \* per call: how many times the response body was closed
    ret,         \* per call: the returned pair [result, err]
    applied      \* the last application of a function of the package on its
                 \* own, outside an operation: [fn, arg, out]

vars == <<client, pc, op, input, ctx, canceledAt, sent, dres, stream, closes, ret,
          applied>>

NoInput == EmptyFn

NoStream == [read |-> FALSE, err |-> Nil, body |-> EmptyFn]

NoDres == [res |-> NoResponse, err |-> Nil]

\* no function was applied on its own
NoApplied == [fn |-> "", arg |-> EmptyFn, out |-> EmptyFn]

NoRet == [result |-> EmptyFn, err |-> Nil]

Init ==
    /\ client \in {NewClient(a[1], a[2]) : a \in ClientArgs}
    /\ pc = [c \in Slots |-> "idle"]
    /\ op = [c \in Slots |-> ""]
    /\ input = [c \in Slots |-> NoInput]
    /\ ctx = [c \in Slots |-> ""]
    /\ canceledAt = [c \in Slots |-> "never"]
    /\ sent = [c \in Slots |-> <<>>]
    /\ dres = [c \in Slots |-> NoDres]
    /\ stream = [c \in Slots |-> NoStream]
    /\ closes = [c \in Slots |-> 0]
    /\ ret = [c \in Slots |-> NoRet]
    /\ applied = NoApplied

\* The operation is entered: its request is encoded and doRequest runs up to
\* httpClient.Do, where the call blocks; when the request cannot be built,
\* doRequest returns the error and the operation returns at once.
Enter(c, name, request, cx, b, outs) ==
    /\ pc[c] = "idle"
    /\ op' = [op EXCEPT ![c] = name]
    /\ input' = [input EXCEPT ![c] = request]
    /\ ctx' = [ctx EXCEPT ![c] = cx]
    /\ canceledAt' = [canceledAt EXCEPT ![c] = IF cx = "canceled" THEN "before" ELSE "never"]
    /\ IF b.err # Nil
       THEN /\ pc' = [pc EXCEPT ![c] = "done"]
            /\ dres' = [dres EXCEPT ![c] = [res |-> NoResponse, err |-> b.err]]
            /\ \E out \in outs :
                  /\ ret' = [ret EXCEPT ![c] = [result |-> out.result, err |-> out.err]]
                  /\ closes' = [closes EXCEPT ![c] = @ + out.closes]
            /\ UNCHANGED sent
       ELSE /\ pc' = [pc EXCEPT ![c] = "Do"]
            /\ sent' = [sent EXCEPT ![c] = Append(@, b.req)]
            /\ UNCHANGED <<dres, ret, closes>>
    /\ UNCHANGED stream

\* A faulty variant of Latest: the method has a pointer receiver and appends
\* the path to the base URL of the shared client.
Latest_shared(c) ==
    /\ \E cx \in Contexts, request \in LatestRequests :
          LET b == doRequest(client, Handle(cx), MethodGet, "latest", NoBody,
                             LatestRequest_toParams(request))
          IN Enter(c, "Latest", request, cx, b,
                   {LatestTail([res |-> NoResponse, err |-> b.err], NoStream)})
    /\ client' = [client EXCEPT !.baseURL = Concat(@, "latest")]
    /\ UNCHANGED applied

Latest(c) ==
    /\ \E cx \in Contexts, request \in LatestRequests :
           LET b == doRequest(client, Handle(cx), MethodGet, "latest", NoBody,
                              LatestRequest_toParams(request))
           IN Enter(c, "Latest", request, cx, b,
                    {LatestTail([res |-> NoResponse, err |-> b.err], NoStream)})
    /\ UNCHANGED <<client, applied>>

Currencies(c) ==
    /\ \E cx \in Contexts, request \in CurrenciesRequests :
           LET b == doRequest(client, Handle(cx), MethodGet, "currencies", NoBody,
                              CurrenciesRequest_toParams(request))
           IN Enter(c, "Currencies", request, cx, b,
                    {CurrenciesTail([res |-> NoResponse, err |-> b.err], NoStream)})
    /\ UNCHANGED <<client, applied>>

Historical(c) ==
    /\ \E cx \in Contexts, request \in HistoricalRequests :
           LET b == doRequest(client, Handle(cx), MethodGet, "historical", NoBody,
                              HistoricalRequest_toParams(request))
           IN Enter(c, "Historical", request, cx, b,
                    HistoricalTail([res |-> NoResponse, err |-> b.err], NoStream))
    /\ UNCHANGED <<client, applied>>

\* Status passes a nil parameter map
Status(c) ==
    /\ \E cx \in Contexts :
           LET b == doRequest(client, Handle(cx), MethodGet, "status", NoBody, EmptyFn)
           IN Enter(c, "Status", NoInput, cx, b,
                    {StatusTail([res |-> NoResponse, err |-> b.err], NoStream)})
    /\ UNCHANGED <<client, applied>>

\* The bodies the server may send for an operation
Bodies(name) ==
    CASE name = "Latest" -> LatestBodies
      [] name = "Currencies" -> CurrenciesBodies
      [] name = "Historical" -> HistoricalBodies
      [] name = "Status" -> StatusBodies

\* The context of the request the transport is working on is canceled.
ReqCanceled(c) ==
    /\ sent[c][Len(sent[c])].Ctx = CallerCtx
    /\ ctx[c] = "canceled"

\* v.httpClient.Do(req) hands back a response: the transport honours the
\* request's context, so it does so only while that context is not canceled.
Do_response(c) ==
    /\ pc[c] = "Do"
    /\ ~ReqCanceled(c)
    /\ \E code \in StatusCodes, body \in Bodies(op[c]) :
          dres' = [dres EXCEPT ![c] = [res |-> [StatusCode |-> code, Body |-> body],
                                       err |-> Nil]]
    /\ pc' = [pc EXCEPT ![c] = "resume"]
    /\ UNCHANGED <<applied, client, op, input, ctx, canceledAt, sent, stream, closes, ret>>

\* v.httpClient.Do(req) fails: with the context's error once the context is
\* canceled, else with a network error.  doRequest returns (nil, err).
Do_error(c) ==
    /\ pc[c] = "Do"
    /\ dres' = [dres EXCEPT ![c] = [res |-> NoResponse,
                                    err |-> IF ReqCanceled(c) THEN ErrCtxCanceled
                                            ELSE ErrConnRefused]]
    /\ pc' = [pc EXCEPT ![c] = "resume"]
    /\ UNCHANGED <<applied, client, op, input, ctx, canceledAt, sent, stream, closes, ret>>

\* The caller cancels the context of a call in progress.
Cancel(c) ==
    /\ pc[c] \in {"Do", "resume"}
    /\ ctx[c] = "live"
    /\ ctx' = [ctx EXCEPT ![c] = "canceled"]
    /\ canceledAt' = [canceledAt EXCEPT ![c] = pc[c]]
    /\ UNCHANGED <<applied, client, pc, op, input, sent, dres, stream, closes, ret>>

\* What reading the body of the response delivers: the body, or, once the
\* context is canceled, possibly the context's error instead (whether the
\* bytes were already buffered is up to the transport).
BodyStreams(c) ==
    {[read |-> TRUE, err |-> Nil, body |-> dres[c].res.Body]}
    \cup (IF ReqCanceled(c)
          THEN {[read |-> TRUE, err |-> ErrCtxCanceled, body |-> dres[c].res.Body]}
          ELSE {})

\* The streams the rest of the operation may meet
Streams(c) == IF dres[c].err = Nil THEN BodyStreams(c) ELSE {NoStream}

\* The operation resumes after doRequest and returns.
Return(c, st, outs) ==
    /\ \E out \in outs :
          /\ stream' = [stream EXCEPT ![c] = IF out.read THEN st ELSE NoStream]
          /\ ret' = [ret EXCEPT ![c] = [result |-> out.result, err |-> out.err]]
          /\ closes' = [closes EXCEPT ![c] = @ + out.closes]
    /\ pc' = [pc EXCEPT ![c] = "done"]
    /\ UNCHANGED <<applied, client, op, input, ctx, canceledAt, sent, dres>>

Latest_return(c) ==
    /\ pc[c] = "resume"
    /\ op[c] = "Latest"
    /\ \E st \in Streams(c) : Return(c, st, {LatestTail(dres[c], st)})

Currencies_return(c) ==
    /\ pc[c] = "resume"
    /\ op[c] = "Currencies"
    /\ \E st \in Streams(c) : Return(c, st, {CurrenciesTail(dres[c], st)})

\* A faulty variant of Historical_return: a failed transport call is tried
\* again.
Historical_return_retry(c) ==
    /\ pc[c] = "resume"
    /\ op[c] = "Historical"
    /\ IF dres[c].err # Nil /\ Len(sent[c]) < 3
       THEN /\ pc' = [pc EXCEPT ![c] = "Do"]
            /\ sent' = [sent EXCEPT ![c] = Append(@, @[1])]
            /\ dres' = [dres EXCEPT ![c] = NoDres]
            /\ UNCHANGED <<applied, client, op, input, ctx, canceledAt, stream, closes, ret>>
       ELSE \E st \in Streams(c) : Return(c, st, HistoricalTail(dres[c], st))

Historical_return(c) ==
    /\ pc[c] = "resume"
    /\ op[c] = "Historical"
    /\ \E st \in Streams(c) : Return(c, st, HistoricalTail(dres[c], st))

Status_return(c) ==
    /\ pc[c] = "resume"
    /\ op[c] = "Status"
    /\ \E st \in Streams(c) : Return(c, st, {StatusTail(dres[c], st)})

\* the steps of the calls of a set S
Step(S) ==
    \/ \E c \in S : Latest(c)
    \/ \E c \in S : Currencies(c)
    \/ \E c \in S : Historical(c)
    \/ \E c \in S : Status(c)
    \/ \E c \in S : Do_response(c)
    \/ \E c \in S : Do_error(c)
    \/ \E c \in S : Cancel(c)
    \/ \E c \in S : Latest_return(c)
    \/ \E c \in S : Currencies_return(c)
    \/ \E c \in S : Historical_return(c)
    \/ \E c \in S : Status_return(c)

Next == Step(Calls)

Spec == Init /\ [][Next]_vars

NextConcurrent == Step(Concurrent)

SpecConcurrent == Init /\ [][NextConcurrent]_vars

----------------------------------------------------------------------------
(* The functions of the package applied on their own: the request          *)
(* encoders, the constructor and the response mappings, each over a        *)
(* bounded set of arguments.                                               *)

\* the longest currency list encoded
MaxList == 2

\* list elements; nothing validates them, so the empty string is one
Codes == {"EUR", "GBP", ""}

CurrencyLists == UNION {[1..n -> Codes] : n \in 0..MaxList}

BaseCurrencies == {"", "USD", "EUR"}

\* dates: unset, an ordinary one, the last of year 9999, the first of 10000
Dates ==
    {ZeroTime,
     [year |-> 2022, month |-> 1, day |-> 1],
     [year |-> 9999, month |-> 12, day |-> 31],
     [year |-> 10000, month |-> 1, day |-> 1]}

LatestArgs == [BaseCurrency : BaseCurrencies, Currencies : CurrencyLists]

CurrenciesArgs == [Currencies : CurrencyLists]

HistoricalArgs == [Date : Dates, BaseCurrency : BaseCurrencies, Currencies : CurrencyLists]

Apply(fn, arg, out) ==
    /\ applied' = [fn |-> fn, arg |-> arg, out |-> out]
    /\ UNCHANGED <<client, pc, op, input, ctx, canceledAt, sent, dres, stream, closes, ret>>

LatestRequest_toParams_apply ==
    \E r \in LatestArgs : Apply("LatestRequest.toParams", r, LatestRequest_toParams(r))

CurrenciesRequest_toParams_apply ==
    \E r \in CurrenciesArgs :
        Apply("CurrenciesRequest.toParams", r, CurrenciesRequest_toParams(r))

HistoricalRequest_toParams_apply ==
    \E r \in HistoricalArgs :
        Apply("HistoricalRequest.toParams", r, HistoricalRequest_toParams(r))

\* option values: each field set or left at its zero value
OptionValues ==
    {WithBaseURL(WithHTTPClient(Options, h), u) :
        h \in {NilClient, CustomClient}, u \in {EmptyUrl, TestUrl}}

\* the variadic opts: none, one (possibly nil), or two
OptionLists ==
    {<<>>}
        \cup {<<o>> : o \in OptionValues \cup {NilOption}}
        \cup {<<o1, o2>> : o1 \in OptionValues \cup {NilOption}, o2 \in OptionValues}

NewClient_apply ==
    \E apiKey \in ApiKeys, opts \in OptionLists :
        Apply("NewClient", [apiKey |-> apiKey, opts |-> opts], NewClient(apiKey, opts))

\* wire structures, as decoding can leave them: Data nil (no "data" key in
\* the body), empty, or with entries
RateMaps == {[AED |-> 3], [AED |-> 4], [AED |-> 3, AFN |-> 91]}

latestResponses ==
    {[Data |-> NilMap], [Data |-> MkMap(EmptyFn)]} \cup {[Data |-> MkMap(m)] : m \in RateMaps}

currenciesResponses ==
    {[Data |-> NilMap], [Data |-> MkMap(EmptyFn)],
     [Data |-> MkMap([EUR |-> currencyResponseItem(EurDoc)])],
     [Data |-> MkMap([EUR |-> currencyResponseItem(ChfDoc)])],
     [Data |-> MkMap([EUR |-> currencyResponseItem(EurDoc),
                      CHF |-> currencyResponseItem(ChfDoc)])]}

historicalResponses ==
    {[Data |-> NilMap], [Data |-> MkMap(EmptyFn)],
     [Data |-> MkMap(("2022-01-01" :> MkMap([AED |-> 3])) @@
                     ("2022-01-02" :> MkMap([AED |-> 4, AFN |-> 91])))]}
        \cup {[Data |-> MkMap(d :> MkMap(m))] :
                 d \in {"2022-01-01", "2022-01-02"}, m \in {[AED |-> 3], [AED |-> 4]}}

statusResponses ==
    {[Quotas |-> [Month |-> [Total |-> t, Used |-> u, Remaining |-> r]]] :
        t \in {0, 300}, u \in {0, 71}, r \in {0, 229}}

\* Each mapping is applied to two wire structures, so that their results
\* can be compared.
toLatestResponse_apply ==
    \E a, b \in latestResponses :
        Apply("toLatestResponse", <<a, b>>, <<toLatestResponse(a), toLatestResponse(b)>>)

toCurrenciesResponse_apply ==
    \E a, b \in currenciesResponses :
        Apply("toCurrenciesResponse", <<a, b>>,
              <<toCurrenciesResponse(a), toCurrenciesResponse(b)>>)

toHistoricalResponse_apply ==
    \E a, b \in historicalResponses :
        \E ka \in FirstKeys(a), kb \in FirstKeys(b) :
            Apply("toHistoricalResponse", <<a, b>>,
                  <<toHistoricalResponse(a, ka), toHistoricalResponse(b, kb)>>)

toStatusResponse_apply ==
    \E a, b \in statusResponses :
        Apply("toStatusResponse", <<a, b>>, <<toStatusResponse(a), toStatusResponse(b)>>)

NextApply ==
    \/ LatestRequest_toParams_apply
    \/ CurrenciesRequest_toParams_apply
    \/ HistoricalRequest_toParams_apply
    \/ NewClient_apply
    \/ toLatestResponse_apply
    \/ toCurrenciesResponse_apply
    \/ toHistoricalResponse_apply
    \/ toStatusResponse_apply

SpecApply == Init /\ [][NextApply]_vars

----------------------------------------------------------------------------
(* Properties *)

Done(c) == pc[c] = "done"

\* the transport handed a response to call c
HasResponse(c) == pc[c] \in {"resume", "done"} /\ dres[c].err = Nil

\* the transport was invoked for call c and failed
TransportFailed(c) == pc[c] \in {"resume", "done"} /\ dres[c].err # Nil /\ Len(sent[c]) > 0

StatusOf(c) == dres[c].res.StatusCode

BodyOf(c) == dres[c].res.Body

\* the zero value of the result type of an operation
Zero(name) ==
    CASE name = "Latest" -> [Rates |-> NilMap]
      [] name = "Currencies" -> [Currencies |-> NilMap]
      [] name = "Historical" -> [Rates |-> NilMap]
      [] name = "Status" -> [Month |-> [Total |-> 0, Used |-> 0, Remaining |-> 0]]

\* call c got a 200 response whose body arrived in full and is a complete
\* document of the endpoint's schema (for Historical: with a single date)
WellFormed200(c) ==
    /\ Done(c)
    /\ HasResponse(c)
    /\ StatusOf(c) = 200
    /\ stream[c].read /\ stream[c].err = Nil
    /\ BodyOf(c).fault = ""
    /\ IF op[c] = "Status" THEN "quotas" \in DOMAIN BodyOf(c).json
       ELSE "data" \in DOMAIN BodyOf(c).json
    /\ op[c] = "Historical" => Cardinality(DOMAIN BodyOf(c).json.data) = 1

\* the result of call c holds exactly the data of the body
ExactlyTheData(c) ==
    LET json == BodyOf(c).json
        result == ret[c].result
    IN CASE op[c] = "Latest" ->
              /\ ~result.Rates.nil
              /\ DOMAIN result.Rates.kv = DOMAIN json.data
              /\ \A k \in DOMAIN json.data : result.Rates.kv[k] = json.data[k]
         [] op[c] = "Currencies" ->
              /\ ~result.Currencies.nil
              /\ DOMAIN result.Currencies.kv = DOMAIN json.data
              /\ \A k \in DOMAIN json.data :
                    LET item == result.Currencies.kv[k]
                        w == json.data[k]
                    IN /\ item.Symbol = w.symbol
                       /\ item.Name = w.name
                       /\ item.SymbolNative = w.symbol_native
                       /\ item.DecimalDigits = w.decimal_digits
                       /\ item.Rounding = w.rounding
                       /\ item.Code = w.code
                       /\ item.NamePlural = w.name_plural
         [] op[c] = "Historical" ->
              \A date \in DOMAIN json.data :
                  /\ ~result.Rates.nil
                  /\ DOMAIN result.Rates.kv = DOMAIN json.data[date]
                  /\ \A k \in DOMAIN json.data[date] : result.Rates.kv[k] = json.data[date][k]
         [] op[c] = "Status" ->
              /\ result.Month.Total = json.quotas.month.total
              /\ result.Month.Used = json.quotas.month.used
              /\ result.Month.Remaining = json.quotas.month.remaining

\* C1: a 200 response with a well-formed body of the endpoint's schema makes
\* the operation return a nil error and a result that holds exactly the data
\* of the body: the same entries and fields, none added, dropped or changed.
C1_RoundTrip ==
    \A c \in Slots : WellFormed200(c) => ret[c].err = Nil /\ ExactlyTheData(c)

\* Currencies has returned the two currencies of a well-formed body.
C1_Witness ==
    \E c \in Slots :
        /\ WellFormed200(c)
        /\ op[c] = "Currencies"
        /\ Cardinality(DOMAIN ret[c].result.Currencies.kv) = 2

\* C2: a 401 response makes every operation return ErrUnauthorized and the
\* zero result, whatever the body holds; the body is not read.
C2_Unauthorized ==
    \A c \in Slots :
        (Done(c) /\ HasResponse(c) /\ StatusOf(c) = 401)
            => /\ ret[c].err = ErrUnauthorized
               /\ ret[c].result = Zero(op[c])
               /\ ~stream[c].read

\* Status has returned on a 401 response whose body was a well-formed
\* status document.
C2_Witness ==
    \E c \in Slots :
        /\ Done(c) /\ HasResponse(c) /\ StatusOf(c) = 401
        /\ op[c] = "Status"
        /\ BodyOf(c) = Complete(StatusDoc)

\* C3: a response whose status is neither 200 nor 401 (204 included) makes
\* every operation return ErrInvalidStatusCode and the zero result; the body
\* is not read.
C3_InvalidStatus ==
    \A c \in Slots :
        (Done(c) /\ HasResponse(c) /\ StatusOf(c) \notin {200, 401})
            => /\ ret[c].err = ErrInvalidStatusCode
               /\ ret[c].result = Zero(op[c])
               /\ ~stream[c].read

\* Latest has returned on a 204 response whose body was cut off.
C3_Witness ==
    \E c \in Slots :
        /\ Done(c) /\ HasResponse(c) /\ StatusOf(c) = 204
        /\ op[c] = "Latest"
        /\ BodyOf(c).fault = "truncated"

\* C4: a 200 response whose body arrives as a document that ends early or
\* is not JSON makes every operation return the decoder's own error
\* (io.ErrUnexpectedEOF, a syntax error) and the zero result.
C4_DecodeError ==
    \A c \in Slots :
        (Done(c) /\ HasResponse(c) /\ StatusOf(c) = 200
                 /\ stream[c].err = Nil /\ BodyOf(c).fault # "")
            => /\ BodyOf(c).fault = "truncated" => ret[c].err = ErrUnexpectedEOF
               /\ BodyOf(c).fault = "syntax" => ret[c].err = ErrSyntax
               /\ ret[c].err \in {ErrUnexpectedEOF, ErrSyntax}
               /\ ret[c].result = Zero(op[c])

\* Historical has returned on a 200 response whose body was cut off.
C4_Witness ==
    \E c \in Slots :
        /\ Done(c) /\ HasResponse(c) /\ StatusOf(c) = 200
        /\ stream[c].read /\ stream[c].err = Nil /\ BodyOf(c).fault = "truncated"
        /\ op[c] = "Historical"

\* C5: when the transport call fails, every operation returns the error of
\* the transport as it is, with the zero result; no body is read or closed.
C5_TransportError ==
    \A c \in Slots :
        (Done(c) /\ TransportFailed(c))
            => /\ ret[c].err = dres[c].err
               /\ ret[c].err \notin {Nil, ErrUnauthorized, ErrInvalidStatusCode}
               /\ ret[c].result = Zero(op[c])
               /\ ~stream[c].read
               /\ closes[c] = 0

\* Status has returned after the connection was refused.
C5_Witness ==
    \E c \in Slots :
        /\ Done(c) /\ TransportFailed(c)
        /\ op[c] = "Status"
        /\ dres[c].err = ErrConnRefused

\* the HTTP call of c was issued: a request went to the transport
Issued(c) == Len(sent[c]) > 0

\* C6, as claimed: a context canceled before the HTTP call starts or at any
\* point while the operation is in progress makes the operation fail with
\* the context's error and the zero result.
C6_CanceledAnyTime ==
    \A c \in Slots :
        (Done(c) /\ Issued(c) /\ canceledAt[c] # "never")
            => ret[c].err = ErrCtxCanceled /\ ret[c].result = Zero(op[c])

\* C6, amended: once the request is built, a context canceled before the
\* transport call starts or while it waits for the response makes the
\* operation fail with the context's error and the zero result, with no
\* response obtained; a context canceled after the transport has handed back
\* the response fails the operation that way only when it fails the reading
\* of the body.
C6_CanceledBeforeResponse ==
    \A c \in Slots :
        /\ (Done(c) /\ Issued(c) /\ canceledAt[c] \in {"before", "Do"})
              => /\ ret[c].err = ErrCtxCanceled
                 /\ ret[c].result = Zero(op[c])
                 /\ ~HasResponse(c)
        /\ (Done(c) /\ canceledAt[c] = "resume" /\ stream[c].err = ErrCtxCanceled)
              => /\ ret[c].err = ErrCtxCanceled
                 /\ ret[c].result = Zero(op[c])

\* A call whose context was canceled while the transport was waiting has
\* returned.
C6_Witness ==
    \E c \in Slots :
        /\ Done(c) /\ Issued(c)
        /\ canceledAt[c] = "Do"
        /\ ret[c].err = ErrCtxCanceled

\* C7: a response obtained from the transport has its body closed exactly
\* once by the time the operation has returned, whichever way it returns.
C7_BodyClosedOnce ==
    \A c \in Slots : (Done(c) /\ HasResponse(c)) => closes[c] = 1

\* A call has returned on a decoding failure, with its body closed.
C7_Witness ==
    \E c \in Slots :
        /\ Done(c) /\ HasResponse(c) /\ StatusOf(c) = 200 /\ ret[c].err = ErrSyntax
        /\ closes[c] = 1

\* something went wrong in call c
Failed(c) ==
    \/ dres[c].err # Nil
    \/ /\ HasResponse(c)
       /\ \/ StatusOf(c) # 200
          \/ stream[c].err # Nil
          \/ BodyOf(c).fault # ""

\* C8: a call invokes the transport at most once, whatever fails, and a
\* failure is never returned as a nil error.
C8_NoRetryNoSwallow ==
    \A c \in Slots :
        /\ Len(sent[c]) <= 1
        /\ (Done(c) /\ Failed(c)) => ret[c].err # Nil

\* Historical has returned after its one transport call failed.
C8_Witness ==
    \E c \in Slots :
        /\ Done(c) /\ TransportFailed(c)
        /\ op[c] = "Historical"
        /\ Len(sent[c]) = 1
        /\ ret[c].err # Nil

\* everything that belongs to call c
Local(c) ==
    <<pc[c], op[c], input[c], ctx[c], canceledAt[c], sent[c], dres[c], stream[c],
      closes[c], ret[c]>>

\* the path an operation requests
PathOf(name) ==
    CASE name = "Latest" -> "latest"
      [] name = "Currencies" -> "currencies"
      [] name = "Historical" -> "historical"
      [] name = "Status" -> "status"

\* the parameters the encoder of call c's request produces (none for Status)
OwnParams(c) ==
    CASE op[c] = "Latest" -> LatestRequest_toParams(input[c])
      [] op[c] = "Currencies" -> CurrenciesRequest_toParams(input[c])
      [] op[c] = "Historical" -> HistoricalRequest_toParams(input[c])
      [] op[c] = "Status" -> EmptyFn

\* C9: no step writes the client configuration, a step changes the state of
\* one call only, and what a call sends and returns is its own: the request
\* carries the call's own path and parameters, and a result returned with a
\* nil error comes from the call's own response.
C9_Isolation ==
    [][ /\ client' = client
        /\ \A c, d \in Slots :
              (c # d /\ Local(c)' # Local(c)) => Local(d)' = Local(d)
        /\ \A c \in Slots :
              Len(sent'[c]) > Len(sent[c]) =>
                  LET req == sent'[c][Len(sent'[c])]
                  IN /\ req.URL.scheme = client.baseURL.scheme
                     /\ \A k \in DOMAIN OwnParams(c)' :
                           /\ k \in DOMAIN req.URL.RawQuery
                           /\ req.URL.RawQuery[k][Len(req.URL.RawQuery[k])] = OwnParams(c)'[k]
        /\ \A c \in Slots :
              (~Done(c) /\ Done(c)' /\ ret'[c].err = Nil) =>
                  /\ HasResponse(c) /\ StatusOf(c) = 200
                  /\ WellFormed200(c)' => ExactlyTheData(c)'
      ]_vars

\* Two calls of different operations are in progress on the client at once,
\* one blocked in the transport, the other resuming.
C9_Witness ==
    /\ pc[1] = "Do" /\ pc[2] = "resume"
    /\ op[1] # op[2]

\* the values a query text holds under a key, in order
ValuesOf(pairs, k) ==
    LET sel == SelectSeq(pairs, LAMBDA pr : pr[1] = k)
    IN [i \in 1..Len(sel) |-> sel[i][2]]

KeysOf(pairs) == {pairs[i][1] : i \in 1..Len(pairs)}

\* Header.Get
HeaderGet(h, k) == IF CanonicalHeaderKey(k) \in DOMAIN h THEN h[CanonicalHeaderKey(k)] ELSE ""

\* method, address and headers of a request of call c
RequestLine(c, req) ==
    /\ req.Method = "GET"
    /\ req.URL.scheme = Concat(client.baseURL, PathOf(op[c])).scheme
    /\ req.URL.loc = Concat(client.baseURL, PathOf(op[c])).loc
    /\ HeaderGet(req.Header, "apikey") = client.apiKey
    /\ HeaderGet(req.Header, "Content-Type") = "application/json"
    /\ DOMAIN req.Header = {"Apikey", "Content-Type"}

\* C10, as claimed: every request is a GET to base URL + path with the
\* apikey and Content-Type headers, and its query holds exactly the pairs
\* the encoder produced.
C10_ExactlyEncoderPairs ==
    \A c \in Slots : \A i \in 1..Len(sent[c]) :
        /\ RequestLine(c, sent[c][i])
        /\ sent[c][i].URL.RawQuery = [k \in DOMAIN OwnParams(c) |-> <<OwnParams(c)[k]>>]

\* C10, amended: every request is a GET to base URL + path with the apikey
\* and Content-Type headers, and its query holds the pairs the text
\* base URL + path already carries followed by the pairs the encoder
\* produced, and no other.
C10_Request ==
    \A c \in Slots : \A i \in 1..Len(sent[c]) :
        LET req == sent[c][i]
            own == Concat(client.baseURL, PathOf(op[c])).query
            params == OwnParams(c)
        IN /\ RequestLine(c, req)
           /\ DOMAIN req.URL.RawQuery = KeysOf(own) \cup DOMAIN params
           /\ \A k \in DOMAIN req.URL.RawQuery :
                 req.URL.RawQuery[k] =
                     ValuesOf(own, k) \o (IF k \in DOMAIN params THEN <<params[k]>> ELSE <<>>)

\* Historical has sent a request with its three parameters to a base URL
\* that carries a query of its own.
C10_Witness ==
    \E c \in Slots :
        /\ client.baseURL = QueryUrl
        /\ Issued(c) /\ op[c] = "Historical"
        /\ DOMAIN sent[c][1].URL.RawQuery = {"tenant", "date", "base_currency", "currencies"}

----------------------------------------------------------------------------
(* Request encoders on their own *)

Encoders == {"LatestRequest.toParams", "CurrenciesRequest.toParams",
             "HistoricalRequest.toParams"}

RECURSIVE JoinedUpTo(_, _)
\* the first n elements of a list, n >= 1, in list order with commas between
JoinedUpTo(list, n) ==
    IF n = 1 THEN list[1] ELSE JoinedUpTo(list, n - 1) \o "," \o list[n]

\* the base currency of a request value; the currencies request has none
BaseOf(r) == IF "BaseCurrency" \in DOMAIN r THEN r.BaseCurrency ELSE ""

\* C11: every encoder's output has base_currency exactly when BaseCurrency is
\* not empty, with that value, has currencies exactly when the list has an
\* element, with the elements joined by commas in list order, and has no other
\* key except the historical encoder's date; elements are neither validated
\* nor reordered.
C11_EncoderKeys ==
    applied.fn \in Encoders =>
        LET r == applied.arg
            p == applied.out
        IN /\ ("base_currency" \in DOMAIN p) <=> (BaseOf(r) # "")
           /\ "base_currency" \in DOMAIN p => p["base_currency"] = BaseOf(r)
           /\ ("currencies" \in DOMAIN p) <=> (Len(r.Currencies) >= 1)
           /\ "currencies" \in DOMAIN p =>
                  p["currencies"] = JoinedUpTo(r.Currencies, Len(r.Currencies))
           /\ DOMAIN p \subseteq
                  {"base_currency", "currencies"} \cup
                  (IF applied.fn = "HistoricalRequest.toParams" THEN {"date"} ELSE {})

\* a list that is not in alphabetical order and holds an unvalidated element,
\* encoded without a base currency
C11_Witness ==
    /\ applied.fn = "LatestRequest.toParams"
    /\ applied.arg = [BaseCurrency |-> "", Currencies |-> <<"GBP", "">>]
    /\ DOMAIN applied.out = {"currencies"}
    /\ applied.out["currencies"] = "GBP,"

\* the text of a year of at most four digits, padded to four
YYYY(y) ==
    Digit[(y \div 1000) + 1] \o Digit[((y \div 100) % 10) + 1]
        \o Digit[((y \div 10) % 10) + 1] \o Digit[(y % 10) + 1]

----------------------------------------------------------------------------
(* The constructor on its own *)

\* the option NewClient was given: its first argument after the key, when
\* there is one and it is not nil
Given(opts) == Len(opts) > 0 /\ ~opts[1].isNil

\* C13: the client built by NewClient holds the given API key; its HTTP
\* client is the option's when the option has one and the default client
\* otherwise (no option, a nil option, or an option without a client); its
\* base URL is the option's when that is not empty and the production BaseUrl
\* otherwise; either field defaults whatever the other one is.
C13_NewClient ==
    applied.fn = "NewClient" =>
        LET opts == applied.arg.opts
            v == applied.out
        IN /\ v.apiKey = applied.arg.apiKey
           /\ ~Given(opts) => v.httpClient = DefaultClient /\ v.baseURL = BaseUrl
           /\ Given(opts) /\ opts[1].HTTPClient = NilClient => v.httpClient = DefaultClient
           /\ Given(opts) /\ opts[1].HTTPClient # NilClient =>
                  v.httpClient = opts[1].HTTPClient
           /\ Given(opts) /\ opts[1].BaseURL = EmptyUrl => v.baseURL = BaseUrl
           /\ Given(opts) /\ opts[1].BaseURL # EmptyUrl => v.baseURL = opts[1].BaseURL

\* an option that sets the base URL alone: the HTTP client defaults, the base
\* URL does not
C13_Witness ==
    /\ applied.fn = "NewClient"
    /\ applied.arg.opts = <<WithBaseURL(Options, TestUrl)>>
    /\ applied.out.httpClient = DefaultClient
    /\ applied.out.baseURL = TestUrl
    /\ applied.out.baseURL # BaseUrl

----------------------------------------------------------------------------
(* The response mappings on their own *)

Mappings == {"toLatestResponse", "toCurrenciesResponse", "toHistoricalResponse",
             "toStatusResponse"}

\* C14 as stated: two different wire structures never map to the same public
\* result, for every mapping.
C14_OneToOne ==
    applied.fn \in Mappings =>
        (applied.arg[1] # applied.arg[2] => applied.out[1] # applied.out[2])

\* the entries of a public map are the entries of the wire map
SameEntries(public, wire) ==
    /\ DOMAIN public.kv = DOMAIN wire.kv
    /\ \A k \in DOMAIN wire.kv : public.kv[k] = wire.kv[k]

\* C14: every mapping copies the values it keeps unchanged and computes
\* none; the latest and the status mapping are one-to-one; the currencies
\* mapping is one-to-one on wire structures with entries (a nil and an empty
\* map both give an empty map); the historical mapping returns the rate map
\* of a date of the wire structure, or nil when there is none.
C14_Mappings ==
    /\ applied.fn = "toLatestResponse" =>
           /\ \A i \in 1..2 : applied.out[i].Rates = applied.arg[i].Data
           /\ applied.arg[1] # applied.arg[2] => applied.out[1] # applied.out[2]
    /\ applied.fn = "toStatusResponse" =>
           /\ \A i \in 1..2 :
                  /\ applied.out[i].Month.Total = applied.arg[i].Quotas.Month.Total
                  /\ applied.out[i].Month.Used = applied.arg[i].Quotas.Month.Used
                  /\ applied.out[i].Month.Remaining = applied.arg[i].Quotas.Month.Remaining
           /\ applied.arg[1] # applied.arg[2] => applied.out[1] # applied.out[2]
    /\ applied.fn = "toCurrenciesResponse" =>
           /\ \A i \in 1..2 :
                  /\ ~applied.out[i].Currencies.nil
                  /\ SameEntries(applied.out[i].Currencies, applied.arg[i].Data)
           /\ /\ applied.arg[1] # applied.arg[2]
              /\ \E i \in 1..2 : DOMAIN applied.arg[i].Data.kv # {}
              => applied.out[1] # applied.out[2]
    /\ applied.fn = "toHistoricalResponse" =>
           \A i \in 1..2 :
               LET data == applied.arg[i].Data.kv
               IN IF DOMAIN data = {}
                  THEN applied.out[i].Rates = NilMap
                  ELSE \E d \in DOMAIN data : applied.out[i].Rates = data[d]

\* two status structures that differ in Remaining alone, and in no way that
\* the two other numbers would give away, keep their difference
C14_Witness ==
    /\ applied.fn = "toStatusResponse"
    /\ applied.arg[1].Quotas.Month = [Total |-> 300, Used |-> 71, Remaining |-> 229]
    /\ applied.arg[2].Quotas.Month = [Total |-> 300, Used |-> 71, Remaining |-> 0]
    /\ applied.out[1].Month.Remaining = 229
    /\ applied.out[2].Month.Remaining = 0

----------------------------------------------------------------------------
(* Historical flattening *)

\* call c is a Historical call that got a 200 response whose body arrived in
\* full as a complete document
Historical200(c) ==
    /\ Done(c)
    /\ op[c] = "Historical"
    /\ HasResponse(c)
    /\ StatusOf(c) = 200
    /\ stream[c].read /\ stream[c].err = Nil
    /\ BodyOf(c).fault = ""

\* the dated rate maps of the body of call c
DatesOf(c) ==
    IF "data" \in DOMAIN BodyOf(c).json THEN BodyOf(c).json.data ELSE EmptyFn

\* the rates are those of date d of the body of call c, all of them and no
\* others
RatesOfDate(rates, c, d) ==
    /\ ~rates.nil
    /\ DOMAIN rates.kv = DOMAIN DatesOf(c)[d]
    /\ \A k \in DOMAIN rates.kv : rates.kv[k] = DatesOf(c)[d][k]

\* C15: on a 200 response Historical succeeds and returns as Rates the whole
\* rate map of one date of the body, whichever when there are several, and
\* never entries of two dates together; when the body has no date it still
\* succeeds, with Rates empty.
C15_Flattening ==
    \A c \in Slots :
        Historical200(c) =>
            /\ ret[c].err = Nil
            /\ IF DOMAIN DatesOf(c) = {}
               THEN DOMAIN ret[c].result.Rates.kv = {}
               ELSE \E d \in DOMAIN DatesOf(c) : RatesOfDate(ret[c].result.Rates, c, d)

\* Historical has returned the rates of the second of two dates, without
\* the currency that only the first date lists.
C15_Witness ==
    \E c \in Slots :
        /\ Historical200(c)
        /\ DOMAIN DatesOf(c) = {"2022-01-01", "2022-01-02"}
        /\ "AFN" \in DOMAIN DatesOf(c)["2022-01-01"]
        /\ RatesOfDate(ret[c].result.Rates, c, "2022-01-02")
        /\ "AFN" \notin DOMAIN ret[c].result.Rates.kv

----------------------------------------------------------------------------
(* Requests that cannot be built *)

\* call c was entered with arguments no request can be built from: a nil
\* context, or a base URL that does not parse
Unbuildable(c) ==
    /\ pc[c] # "idle"
    /\ \/ ctx[c] = NilCtx
       \/ ~ParseOK(Concat(client.baseURL, PathOf(op[c])))

\* C16: when the request cannot be built, the operation returns the
\* construction error and the zero result, the transport is never invoked
\* and no body is closed; and in every operation a body is closed only after
\* a response was obtained.
C16_ConstructionFailure ==
    \A c \in Slots :
        /\ Unbuildable(c) =>
               /\ Done(c)
               /\ ret[c].err = IF ctx[c] = NilCtx THEN ErrNilContext ELSE ErrMissingScheme
               /\ ret[c].result = Zero(op[c])
               /\ sent[c] = <<>>
               /\ closes[c] = 0
               /\ ~stream[c].read
        /\ closes[c] > 0 => HasResponse(c)

\* Status has returned the URL parsing error of a client whose base URL has
\* no scheme, with a context that is not nil.
C16_Witness ==
    \E c \in Slots :
        /\ Unbuildable(c)
        /\ op[c] = "Status"
        /\ ctx[c] = "live"
        /\ client.baseURL = BadUrl
        /\ ret[c].err = ErrMissingScheme
        /\ sent[c] = <<>> /\ closes[c] = 0

====
